---- MODULE Spec2Model ----
(***************************************************************************)
(* Pys2Playlist (src/src/pybass3/pys2_playlist.py): the Qt playlist whose  *)
(* QTimer drives tick().  The base class Playlist and the song class       *)
(* Pys2Song live in playlist.py / pys2_song.py, which are not part of the  *)
(* sources at hand; their operations follow the design specification      *)
(* (sections 3, 4.1, 4.3 and 6) and carry the prefix Playlist_ / Song_.    *)
(***************************************************************************)
EXTENDS Integers, Sequences, FiniteSets

\* ---------------------------------------------------------------- bounds
MaxSongs == 2
Duration == 2
MaxFade == 1
MaxPosition == 3
BytesPerUnit == 2

\* ------------------------------------------------------------- constants
None == 0
NoPosition == -1
SongIds == 1..MaxSongs

VARIABLES
    queue,            \* Playlist.queue: song ids in insertion order
    queue_position,   \* Playlist.queue_position (0-based), NoPosition when unset
    current,          \* Playlist.current: a song id or None
    fadein_song,      \* Playlist.fadein_song: a song id or None
    play_mode,        \* Playlist.play_mode
    fade_in,          \* Playlist.fade_in: the fade window, 0 disables fading
    songs,            \* per song: position and is_playing
    freed,            \* the songs the last operation called free_stream on
    ticker,           \* QTimer active
    emitted,          \* signals emitted by the last operation, in order
    last              \* the last operation: its name, branch, result, error

vars == <<queue, queue_position, current, fadein_song, play_mode, fade_in,
          songs, freed, ticker, emitted, last>>

\* ------------------------------------------------------------ song handle
NewSong == [position |-> 0, is_playing |-> FALSE]

\* start or resume from the stream's position
Song_play(sg) == [sg EXCEPT !.is_playing = TRUE]

Song_stop(sg) == [sg EXCEPT !.is_playing = FALSE]

Song_pause(sg) == [sg EXCEPT !.is_playing = FALSE]

\* the stream is released; one opened for the song later starts at 0
Song_free_stream(sg) == [sg EXCEPT !.is_playing = FALSE, !.position = 0]

Song_move2position_seconds(sg, p) == [sg EXCEPT !.position = p]

remaining_bytes(sg) == (Duration - sg.position) * BytesPerUnit

remaining_seconds(sg) == Duration - sg.position

\* ------------------------------------------------------------ the Playlist
\* The playback state as one value, so that a base-class call can be
\* followed by the subclass's reads of its result.
State ==
    [queue |-> queue, queue_position |-> queue_position, current |-> current,
     fadein_song |-> fadein_song, play_mode |-> play_mode, songs |-> songs,
     freed |-> <<>>]

Commit(S) ==
    /\ queue' = S.queue
    /\ queue_position' = S.queue_position
    /\ current' = S.current
    /\ fadein_song' = S.fadein_song
    /\ play_mode' = S.play_mode
    /\ songs' = S.songs
    /\ freed' = S.freed

InRange(S, i) == i >= 0 /\ i < Len(S.queue)

Entry(S, i) == S.queue[i + 1]

\* Queue.next(): the tracks the queue may resolve as "next" ({None}: none)
NextChoices(S) ==
    CASE S.play_mode = "sequential" ->
            IF InRange(S, S.queue_position + 1)
            THEN {Entry(S, S.queue_position + 1)} ELSE {None}
      [] S.play_mode = "loop_single" ->
            IF InRange(S, S.queue_position)
            THEN {Entry(S, S.queue_position)} ELSE {None}
      [] OTHER ->
            IF Len(S.queue) = 0 THEN {None}
            ELSE IF Len(S.queue) = 1 THEN {Entry(S, 0)}
            ELSE {Entry(S, i) : i \in (0..(Len(S.queue) - 1)) \ {S.queue_position}}

\* Queue.previous()
PreviousChoices(S) ==
    CASE S.play_mode = "sequential" ->
            IF InRange(S, S.queue_position - 1)
            THEN {Entry(S, S.queue_position - 1)} ELSE {None}
      [] S.play_mode = "loop_single" ->
            IF InRange(S, S.queue_position)
            THEN {Entry(S, S.queue_position)} ELSE {None}
      [] OTHER ->
            IF Len(S.queue) = 0 THEN {None}
            ELSE IF Len(S.queue) = 1 THEN {Entry(S, 0)}
            ELSE {Entry(S, i) : i \in (0..(Len(S.queue) - 1)) \ {S.queue_position}}

\* Playlist.upcoming: what the queue would resolve as next
upcoming(S) == NextChoices(S)

\* mutant: the old track is stopped but its stream is not released
StopAndFree_no_free(S) == [S EXCEPT !.songs[S.current] = Song_stop(@)]

\* current.stop(); current.free_stream()
StopAndFree(S) ==
    [S EXCEPT !.songs[S.current] = Song_free_stream(Song_stop(@)),
              !.freed = Append(@, S.current)]

\* stop and release the current track, if any
ReleaseCurrent(S) == IF S.current = None THEN S ELSE StopAndFree(S)

\* make the entry at index i current and start it
StartAt(S, i) ==
    LET t == Entry(S, i)
    IN  [S EXCEPT !.queue_position = i, !.current = t,
                  !.songs[t] = Song_play(@)]

\* Playlist.add_song: append; a duplicate identity fails
Playlist_add_song(S, id) == [S EXCEPT !.queue = Append(@, id)]

\* the index Playlist.play reads when nothing is current
PlayIndex(S) == IF S.queue_position = NoPosition THEN 0 ELSE S.queue_position

\* Playlist.play: start fresh when nothing is current, else resume
Playlist_play(S) ==
    IF S.current # None
    THEN [S EXCEPT !.songs[S.current] = Song_play(@)]
    ELSE IF Len(S.queue) = 0 THEN S
    ELSE StartAt(S, PlayIndex(S))

Playlist_play_song_by_index(S, i) == StartAt(ReleaseCurrent(S), i)

IndexOf(S, id) == CHOOSE i \in 0..(Len(S.queue) - 1) : Entry(S, i) = id

InQueue(S, id) == \E i \in 0..(Len(S.queue) - 1) : Entry(S, i) = id

Playlist_play_song_by_id(S, id) == StartAt(ReleaseCurrent(S), IndexOf(S, id))

Playlist_play_first(S) ==
    IF Len(S.queue) = 0 THEN S ELSE StartAt(ReleaseCurrent(S), 0)

Playlist_stop(S) ==
    IF S.current = None THEN S
    ELSE [S EXCEPT !.songs[S.current] = Song_stop(@)]

Playlist_pause(S) ==
    IF S.current = None THEN S
    ELSE [S EXCEPT !.songs[S.current] = Song_pause(@)]

Playlist_set_mode(S, m) == [S EXCEPT !.play_mode = m]

\* ---------------------------------------------------------- Pys2Playlist
Sig(name, id) == <<name, id>>

Call(op, branch, arg, ret, err) ==
    [op |-> op, branch |-> branch, arg |-> arg, ret |-> ret, err |-> err]

Init ==
    /\ queue = <<>>
    /\ queue_position = NoPosition
    /\ current = None
    /\ fadein_song = None
    /\ play_mode = "sequential"
    /\ fade_in \in 0..MaxFade
    /\ songs = [t \in SongIds |-> NewSong]
    /\ freed = <<>>
    /\ ticker = FALSE
    /\ emitted = <<>>
    /\ last = Call("init", "", None, None, "")

\* a call that raises: nothing changes and nothing is emitted
Raise(op, arg, err) ==
    /\ emitted' = <<>>
    /\ last' = Call(op, "", arg, None, err)
    /\ UNCHANGED <<queue, queue_position, current, fadein_song, play_mode,
                   fade_in, songs, ticker>>
    /\ freed' = <<>>

add_song_emits(id) == <<Sig("song_added", id)>>

add_song(id) ==
    IF InQueue(State, id)
    THEN Raise("add_song", id, "DuplicateId")
    ELSE /\ Commit(Playlist_add_song(State, id))
         /\ emitted' = add_song_emits(id)
         /\ last' = Call("add_song", "", id, id, "")
         /\ UNCHANGED <<fade_in, ticker>>

\* play(): lines 100-105
play_is_playing(S) == S.current # None /\ S.songs[S.current].is_playing

\* mutant: song_changed on a resume too
play_emits_always_changed(new_song, S) ==
    (IF play_is_playing(S) THEN <<Sig("music_playing", S.current)>> ELSE <<>>)
    \o (IF S.current # None THEN <<Sig("song_changed", S.current)>> ELSE <<>>)

play_emits(new_song, S) ==
    (IF play_is_playing(S) THEN <<Sig("music_playing", S.current)>> ELSE <<>>)
    \o (IF new_song /\ S.current # None
        THEN <<Sig("song_changed", S.current)>> ELSE <<>>)

\* how play() finds the playlist: nothing current, a playing or a halted one
play_case(S) ==
    IF S.current = None THEN "fresh"
    ELSE IF S.songs[S.current].is_playing THEN "playing" ELSE "resume"

play_ticker(S, tk) == IF play_is_playing(S) THEN TRUE ELSE tk

play ==
    IF current = None /\ Len(queue) > 0 /\ ~InRange(State, PlayIndex(State))
    THEN Raise("play", None, "IndexError")
    ELSE LET new_song == current = None
             S == Playlist_play(State)
         IN  /\ Commit(S)
             /\ emitted' = play_emits(new_song, S)
             /\ ticker' = play_ticker(S, ticker)
             /\ last' = Call("play", play_case(State), None, None, "")
             /\ UNCHANGED fade_in

\* mutant: music_playing is forgotten
play_song_emits_changed_only(id) == <<Sig("song_changed", id)>>

play_song_emits(id) == <<Sig("song_changed", id), Sig("music_playing", id)>>

play_song_by_index(i) ==
    IF ~InRange(State, i)
    THEN Raise("play_song_by_index", i, "IndexOutOfRange")
    ELSE LET S == Playlist_play_song_by_index(State, i)
         IN  /\ Commit(S)
             /\ emitted' = play_song_emits(S.current)
             /\ last' = Call("play_song_by_index", "", i, S.current, "")
             /\ UNCHANGED <<fade_in, ticker>>

play_song_by_id(id) ==
    IF ~InQueue(State, id)
    THEN Raise("play_song_by_id", id, "NotFound")
    ELSE LET S == Playlist_play_song_by_id(State, id)
         IN  /\ Commit(S)
             /\ emitted' = play_song_emits(S.current)
             /\ last' = Call("play_song_by_id", "", id, S.current, "")
             /\ UNCHANGED <<fade_in, ticker>>

\* the song play_first returns: None on an empty queue
play_first_result(S0, S) == IF Len(S0.queue) = 0 THEN None ELSE S.current

\* mutant: the result is not tested for None
play_first_emits_unchecked(song) ==
    <<Sig("song_changed", song), Sig("music_playing", song)>>

play_first_emits(song) == IF song # None THEN play_song_emits(song) ELSE <<>>

play_first ==
    LET S == Playlist_play_first(State)
        song == play_first_result(State, S)
    IN  /\ Commit(S)
        /\ emitted' = play_first_emits(song)
        /\ last' = Call("play_first", "", None, song, "")
        /\ UNCHANGED <<fade_in, ticker>>

stop_emits(S) ==
    IF S.current # None THEN <<Sig("music_stopped", S.current)>> ELSE <<>>

\* mutant: the timer is left as it is
stop_ticker_left(tk) == tk

stop_ticker(tk) == FALSE

stop ==
    LET S == Playlist_stop(State)
    IN  /\ Commit(S)
        /\ emitted' = stop_emits(S)
        /\ ticker' = stop_ticker(ticker)
        /\ last' = Call("stop", "", None, None, "")
        /\ UNCHANGED fade_in

pause_emits(S) ==
    IF S.current # None THEN <<Sig("music_paused", S.current)>> ELSE <<>>

pause_ticker(tk) == FALSE

pause ==
    LET S == Playlist_pause(State)
    IN  /\ Commit(S)
        /\ emitted' = pause_emits(S)
        /\ ticker' = pause_ticker(ticker)
        /\ last' = Call("pause", "", None, None, "")
        /\ UNCHANGED fade_in

\* next()/previous(): emit for a result, and what the method returns
resolve_emits(result) ==
    IF result # None THEN <<Sig("song_changed", result)>> ELSE <<>>

next_returns(result) == result

previous_returns(result) == None

next ==
    \E result \in NextChoices(State) :
        /\ emitted' = resolve_emits(result)
        /\ last' = Call("next", "", None, next_returns(result), "")
        /\ freed' = <<>>
        /\ UNCHANGED <<queue, queue_position, current, fadein_song, play_mode,
                       fade_in, songs, ticker>>

previous ==
    \E result \in PreviousChoices(State) :
        /\ emitted' = resolve_emits(result)
        /\ last' = Call("previous", "", None, previous_returns(result), "")
        /\ freed' = <<>>
        /\ UNCHANGED <<queue, queue_position, current, fadein_song, play_mode,
                       fade_in, songs, ticker>>

\* ------------------------------------------------------------------ tick
\* mutant: the end-of-track test comes before the fade test
tick_branch_advance_first(S, fade) ==
    IF S.current = None THEN "idle"
    ELSE LET remaining == remaining_bytes(S.songs[S.current])
             seconds == remaining_seconds(S.songs[S.current])
         IN  IF S.play_mode = "loop_single" /\ remaining <= 0 THEN "repeat"
             ELSE IF remaining <= 0 THEN "advance"
             ELSE IF fade > 0 /\ seconds <= fade
             THEN IF S.fadein_song = None /\ upcoming(S) # {None}
                  THEN "fade_begin"
                  ELSE "fade_wait"
             ELSE "playing"

\* mutant: a fade begins whether or not one is in flight
tick_branch_refade(S, fade) ==
    IF S.current = None THEN "idle"
    ELSE LET remaining == remaining_bytes(S.songs[S.current])
             seconds == remaining_seconds(S.songs[S.current])
         IN  IF S.play_mode = "loop_single" /\ remaining <= 0 THEN "repeat"
             ELSE IF fade > 0 /\ seconds <= fade
             THEN IF S.fadein_song # None /\ remaining <= 0 THEN "fade_complete"
                  ELSE IF upcoming(S) # {None}
                  THEN "fade_begin"
                  ELSE "fade_wait"
             ELSE IF remaining <= 0 THEN "advance"
             ELSE "playing"

\* which rule of tick() applies (lines 168-205)
tick_branch(S, fade) ==
    IF S.current = None THEN "idle"
    ELSE LET remaining == remaining_bytes(S.songs[S.current])
             seconds == remaining_seconds(S.songs[S.current])
         IN  IF S.play_mode = "loop_single" /\ remaining <= 0 THEN "repeat"
             ELSE IF fade > 0 /\ seconds <= fade
             THEN IF S.fadein_song # None /\ remaining <= 0 THEN "fade_complete"
                  ELSE IF S.fadein_song = None /\ upcoming(S) # {None}
                  THEN "fade_begin"
                  ELSE "fade_wait"
             ELSE IF remaining <= 0 THEN "advance"
             ELSE "playing"

Outcome(S, sigs) == [state |-> S, sigs |-> sigs]

\* mutant: without a song the tick starts the playlist again
tick_idle_restart(S) == Outcome(Playlist_play(S), <<>>)

\* lines 171-174: no song, nothing but the timer is touched
tick_idle(S) == Outcome(S, <<>>)

\* mutant: the repeat stops the track instead of seeking
tick_repeat_no_seek(S) ==
    Outcome([S EXCEPT !.songs[S.current] = Song_stop(@)],
            <<Sig("song_changed", S.current)>>)

\* lines 176-179
tick_repeat(S) ==
    Outcome([S EXCEPT !.songs[S.current] = Song_move2position_seconds(@, 0)],
            <<Sig("song_changed", S.current)>>)

\* mutant: the promoted track does not move the cursor
tick_fade_complete_no_increment(S) ==
    LET S1 == StopAndFree(S)
        S2 == [S1 EXCEPT !.current = S1.fadein_song, !.fadein_song = None]
    IN  Outcome(S2, <<Sig("song_changed", S2.current)>>)

\* lines 183-190
tick_fade_complete(S) ==
    LET S1 == StopAndFree(S)
        S2 == [S1 EXCEPT !.current = S1.fadein_song, !.fadein_song = None,
                         !.queue_position = @ + 1]
    IN  Outcome(S2, <<Sig("song_changed", S2.current)>>)

\* lines 192-195; up is the second read of self.upcoming
tick_fade_begin(S, up) ==
    Outcome([S EXCEPT !.fadein_song = up, !.songs[up] = Song_play(@)], <<>>)

\* mutant: the new current track is not started
tick_advance_no_play(S, result) ==
    LET S1 == StopAndFree(S)
        S2 == [S1 EXCEPT !.current = result]
    IN  IF S2.current # None
        THEN Outcome([S2 EXCEPT !.queue_position = @ + 1],
                     (IF result # None THEN <<Sig("song_changed", result)>> ELSE <<>>)
                     \o <<Sig("song_changed", S2.current)>>)
        ELSE Outcome(S2, <<>>)

\* mutant: the cursor is not moved to the new current track
tick_advance_no_increment(S, result) ==
    LET S1 == StopAndFree(S)
        S2 == [S1 EXCEPT !.current = result]
    IN  IF S2.current # None
        THEN Outcome([S2 EXCEPT !.songs[S2.current] = Song_play(@)],
                     (IF result # None THEN <<Sig("song_changed", result)>> ELSE <<>>)
                     \o <<Sig("song_changed", S2.current)>>)
        ELSE Outcome(S2, <<>>)

\* lines 197-205; result is what super().next() resolved, and self.next()
\* has emitted for it before tick emits
tick_advance(S, result) ==
    LET S1 == StopAndFree(S)
        S2 == [S1 EXCEPT !.current = next_returns(result)]
    IN  IF S2.current # None
        THEN Outcome([S2 EXCEPT !.queue_position = @ + 1,
                                !.songs[S2.current] = Song_play(@)],
                     resolve_emits(result) \o <<Sig("song_changed", S2.current)>>)
        ELSE Outcome(S2, resolve_emits(result))

\* mutant: the rule that begins a fade returns early as well
tick_ticked_early_return(branch) ==
    IF branch \in {"idle", "fade_begin"} THEN <<>> ELSE <<Sig("ticked", None)>>

\* line 207, which the early return of line 174 skips
tick_ticked(branch) == IF branch = "idle" THEN <<>> ELSE <<Sig("ticked", None)>>

\* lines 171-174
tick_ticker(branch, tk) == IF branch = "idle" THEN FALSE ELSE tk

tick ==
    /\ ticker
    /\ queue_position < MaxPosition
    /\ LET b == tick_branch(State, fade_in)
       IN  \E up \in upcoming(State), result \in NextChoices(State) :
             LET out == CASE b = "repeat" -> tick_repeat(State)
                          [] b = "fade_complete" -> tick_fade_complete(State)
                          [] b = "fade_begin" -> tick_fade_begin(State, up)
                          [] b = "advance" -> tick_advance(State, result)
                          [] b = "idle" -> tick_idle(State)
                          [] OTHER -> Outcome(State, <<>>)
             IN  /\ Commit(out.state)
                 /\ emitted' = out.sigs \o tick_ticked(b)
                 /\ ticker' = tick_ticker(b, ticker)
                 /\ last' = Call("tick", b, None, None, "")
                 /\ UNCHANGED fade_in

\* ------------------------------------------------------------- the modes
\* restart_and_play: Playlist resets playback to the first entry through
\* self.play_first(), which is Pys2Playlist.play_first
set_mode(op, m, restart_and_play, sigs) ==
    LET S1 == Playlist_set_mode(State, m)
        S == IF restart_and_play THEN Playlist_play_first(S1) ELSE S1
        song == IF restart_and_play THEN play_first_result(S1, S) ELSE None
    IN  /\ Commit(S)
        /\ emitted' = (IF restart_and_play THEN play_first_emits(song) ELSE <<>>)
                       \o sigs
        /\ last' = Call(op, IF restart_and_play THEN "restart" ELSE "", None, None, "")
        /\ UNCHANGED <<fade_in, ticker>>

set_sequential(restart_and_play) ==
    set_mode("set_sequential", "sequential", restart_and_play,
             <<Sig("queue_changed", None)>>)

set_randomize(restart_and_play) ==
    set_mode("set_randomize", "random", restart_and_play,
             <<Sig("queue_changed", None)>>)

set_loop_single(restart_and_play) ==
    set_mode("set_loop_single", "loop_single", restart_and_play, <<>>)

\* --------------------------------------------------------- audio backend
\* a playing stream moves on by one unit until its end
Advance(t) ==
    /\ songs[t].is_playing
    /\ songs[t].position < Duration
    /\ songs' = [songs EXCEPT ![t].position = @ + 1]
    /\ freed' = <<>>
    /\ emitted' = <<>>
    /\ last' = Call("advance", "", t, None, "")
    /\ UNCHANGED <<queue, queue_position, current, fadein_song, play_mode,
                   fade_in, ticker>>

Next ==
    \/ \E id \in SongIds : id <= Len(queue) + 1 /\ add_song(id)
    \/ play
    \/ \E i \in (-1)..MaxSongs : play_song_by_index(i)
    \/ \E id \in SongIds : play_song_by_id(id)
    \/ play_first
    \/ stop
    \/ pause
    \/ next
    \/ previous
    \/ tick
    \/ \E r \in BOOLEAN : set_sequential(r)
    \/ \E r \in BOOLEAN : set_randomize(r)
    \/ \E r \in BOOLEAN : set_loop_single(r)
    \/ \E t \in SongIds : Advance(t)

Spec == Init /\ [][Next]_vars

\* Scenario of section 8: a sequential playlist without fading, played from
\* its first entry and then left to the timer and the audio backend; the
\* user may halt and resume the current track and ask for its neighbours.
InitSequential ==
    /\ \E n \in 1..MaxSongs : queue = [i \in 1..n |-> i]
    /\ queue_position \in {NoPosition, 0}
    /\ current = None
    /\ fadein_song = None
    /\ play_mode = "sequential"
    /\ fade_in = 0
    /\ songs = [t \in SongIds |-> NewSong]
    /\ freed = <<>>
    /\ ticker = FALSE
    /\ emitted = <<>>
    /\ last = Call("init", "", None, None, "")

\* play() to start the playlist, or to resume after a pause or a stop
play_started ==
    /\ current = None => queue_position = NoPosition \/ last.op = "init"
    /\ play

NextSequential ==
    \/ play_started
    \/ pause
    \/ stop
    \/ next
    \/ previous
    \/ tick
    \/ \E t \in SongIds : Advance(t)

SpecSequential == InitSequential /\ [][NextSequential]_vars

\* ---------------------------------------------------------------- claims
Emitted(name) == SelectSeq(emitted, LAMBDA e : e[1] = name)

EmittedNext(name) == SelectSeq(emitted', LAMBDA e : e[1] = name)

\* C1 (as claimed): a tick emits song_changed at most once, and the
\* end-of-track tick that moves to another track emits exactly one
\* song_changed, for the new current track.
C1_TickEmitsTrackChangedOnce ==
    last.op = "tick" =>
        /\ Len(Emitted("song_changed")) <= 1
        /\ (last.branch = "advance" /\ current # None
              => Emitted("song_changed") = <<Sig("song_changed", current)>>)

\* C2 (as claimed): every tick emits ticked exactly once, whichever branch
\* is taken, the branch without a current track included.
C2_TickAlwaysEmitsTicked ==
    last.op = "tick" => Len(Emitted("ticked")) = 1

\* C2 (amended): a tick that finds a current track emits ticked exactly
\* once, whichever rule applies; a tick that finds none stops the timer and
\* returns without emitting ticked.
C2_TickedUnlessIdle ==
    [][last'.op = "tick" =>
          /\ Len(EmittedNext("ticked")) = (IF current = None THEN 0 ELSE 1)
          /\ (current = None => ~ticker')]_vars

C2_Witness ==
    last.op = "tick" /\ last.branch = "idle" /\ emitted = <<>> /\ ~ticker

\* the operations that assign the slot current anew
Reassigned ==
    \/ last'.op = "tick" /\ last'.branch \in {"fade_complete", "advance"}
    \/ last'.op \in {"play_song_by_index", "play_song_by_id"} /\ last'.err = ""
    \/ last'.op = "play_first" /\ Len(queue) > 0
    \/ /\ last'.op \in {"set_sequential", "set_randomize", "set_loop_single"}
       /\ last'.branch = "restart" /\ Len(queue) > 0

C4_SecondEmits == play_emits(current = None, Playlist_play(State))

C4_SecondFrame ==
    LET S == Playlist_play(State)
    IN  /\ S.current = current
        /\ S.fadein_song = fadein_song
        /\ S.queue_position = queue_position

\* C4 (as claimed): two play() calls on a playing current track emit one
\* music_playing in total and no song_changed, and leave current,
\* fadein_song and queue_position alone.
C4_PlayTwiceOneNowPlaying ==
    (last.op = "play" /\ last.branch = "playing") =>
        /\ Len(Emitted("music_playing"))
             + Len(SelectSeq(C4_SecondEmits, LAMBDA e : e[1] = "music_playing")) = 1
        /\ Emitted("song_changed") = <<>>
        /\ SelectSeq(C4_SecondEmits, LAMBDA e : e[1] = "song_changed") = <<>>
        /\ C4_SecondFrame

\* C4 (amended): each of the two play() calls emits exactly one
\* music_playing for the current track (two in total) and no song_changed,
\* and leaves current, fadein_song and queue_position alone.
C4_PlayTwiceEachNowPlaying ==
    /\ []((last.op = "play" /\ last.branch = "playing") =>
            /\ emitted = <<Sig("music_playing", current)>>
            /\ C4_SecondEmits = <<Sig("music_playing", current)>>
            /\ C4_SecondFrame)
    /\ [][(last'.op = "play" /\ last'.branch = "playing") =>
            UNCHANGED <<current, fadein_song, queue_position>>]_vars

C4_Witness ==
    /\ last.op = "play" /\ last.branch = "playing"
    /\ current # None /\ songs[current].is_playing /\ ticker

\* C5: after stop() or pause() the timer is halted, with or without a
\* current track; the timer fires tick only while it runs, and only play()
\* starts it; stop()/pause() emit music_stopped/music_paused for the current
\* track exactly when there is one, and pause() releases nothing.
C5_StopPauseHaltTicker ==
    /\ [](last.op \in {"stop", "pause"} =>
            /\ ~ticker
            /\ emitted = (IF current = None THEN <<>>
                           ELSE <<Sig(IF last.op = "stop" THEN "music_stopped"
                                      ELSE "music_paused", current)>>)
            /\ (last.op = "pause" => freed = <<>>))
    /\ [][/\ (last'.op = "tick" => ticker)
           /\ (~ticker /\ ticker' => last'.op = "play")
           /\ (last'.op \in {"stop", "pause"} => current' = current)]_vars

C5_Witness ==
    /\ last.op = "pause" /\ current # None /\ ~ticker
    /\ emitted = <<Sig("music_paused", current)>>
    /\ ~songs[current].is_playing

\* both notifications of a started target, once each
C6_Started(target) ==
    /\ last'.err = ""
    /\ current' = target
    /\ emitted' = <<Sig("song_changed", target), Sig("music_playing", target)>>

C6_Failed(err) ==
    /\ last'.err = err
    /\ emitted' = <<>>
    /\ UNCHANGED <<queue, queue_position, current, fadein_song, play_mode,
                   songs, ticker>>

\* C6: play_song_by_index with an index outside the queue and
\* play_song_by_id with an id that is not queued fail, change nothing and
\* emit nothing; with a target that exists they make it current and emit
\* song_changed and music_playing once each, for the target.
C6_PlayByIndexOrId ==
    [][/\ (last'.op = "play_song_by_index" =>
              IF last'.arg >= 0 /\ last'.arg < Len(queue)
              THEN C6_Started(queue[last'.arg + 1])
              ELSE C6_Failed("IndexOutOfRange"))
       /\ (last'.op = "play_song_by_id" =>
              IF \E i \in 1..Len(queue) : queue[i] = last'.arg
              THEN C6_Started(last'.arg)
              ELSE C6_Failed("NotFound"))]_vars

C6_Witness ==
    /\ last.op = "play_song_by_index" /\ last.err = "IndexOutOfRange"
    /\ Len(queue) = 2 /\ last.arg >= 2
    /\ current # None /\ ticker /\ emitted = <<>>

\* C7: on an empty queue play() and play_first() do not fail,
\* play_first() returns None, current stays None, nothing is emitted and
\* the timer is not started.
C7_EmptyQueueNoOp ==
    (Len(queue) = 0 /\ last.op \in {"play", "play_first"}) =>
        /\ last.err = ""
        /\ last.ret = None
        /\ current = None
        /\ emitted = <<>>
        /\ ~ticker

C7_Witness ==
    /\ Len(queue) = 0 /\ last.op = "play_first"
    /\ last.ret = None /\ current = None /\ ~ticker

\* C8 (as claimed): next() and previous() return the track the queue
\* resolves, None when there is none, and emit song_changed for it exactly
\* when it is not None.
C8_NextPreviousReturnResolved ==
    /\ (last.op = "next" =>
          /\ last.ret \in NextChoices(State)
          /\ emitted = resolve_emits(last.ret))
    /\ (last.op = "previous" =>
          /\ last.ret \in PreviousChoices(State)
          /\ emitted = resolve_emits(last.ret))

\* C9 (as claimed): a tick in loop_single mode sets no fadein_song and
\* starts no track.
C9_LoopSingleNeverFades ==
    [][(play_mode = "loop_single" /\ last'.op = "tick") =>
          /\ (fadein_song = None => fadein_song' = None)
          /\ \A t \in SongIds : songs'[t].is_playing => songs[t].is_playing]_vars

\* C10: sequential, no fading, played from the first entry: current runs
\* through the entries in insertion order, one step of queue_position per
\* change; the tick that ends the last entry leaves current None and emits
\* no song_changed; the tick after it stops the timer.
C10_SequentialVisitsInOrder ==
    /\ [](/\ (current # None =>
                /\ InRange(State, queue_position)
                /\ current = Entry(State, queue_position))
           /\ (last.op = "tick" /\ last.branch = "idle" => ~ticker))
    /\ [][/\ (current' # current =>
                \/ /\ current = None /\ last'.op = "play"
                   /\ queue_position = NoPosition \/ last.op = "init"
                   /\ queue_position' = 0
                \/ /\ current # None /\ last'.op = "tick"
                   /\ remaining_bytes(songs[current]) <= 0
                   /\ IF queue_position + 1 < Len(queue)
                      THEN /\ queue_position' = queue_position + 1
                           /\ current' = Entry(State, queue_position + 1)
                      ELSE /\ current' = None
                           /\ queue_position' = queue_position
                           /\ EmittedNext("song_changed") = <<>>)
           /\ (last'.op = "tick" /\ current # None
                 /\ remaining_bytes(songs[current]) <= 0 => current' # current)
           /\ (last'.op = "tick" /\ current = None =>
                 ~ticker' /\ current' = None)]_vars

C10_Witness ==
    /\ last.op = "tick" /\ last.branch = "idle" /\ ~ticker
    /\ current = None /\ Len(queue) = MaxSongs
    /\ queue_position = Len(queue) - 1

\* C11: a tick that finds fadein_song set never takes the end-of-track
\* rule; if it replaces current, the new current is the fading track and
\* queue_position moves by exactly one.
C11_FadeNotPreempted ==
    [][(last'.op = "tick" /\ fadein_song # None) =>
          /\ last'.branch # "advance"
          /\ (last'.branch = "fade_complete" \/ current' # current =>
                /\ current' = fadein_song
                /\ fadein_song' = None
                /\ queue_position' = queue_position + 1)
          /\ (last'.branch # "fade_complete" =>
                current' = current /\ queue_position' = queue_position)]_vars

C11_Witness ==
    /\ last.op = "tick" /\ last.branch = "fade_complete"
    /\ current # None /\ fadein_song = None /\ play_mode = "sequential"
    /\ freed # <<>> /\ freed[1] # current /\ queue_position = 1

\* C12: while fadein_song is set no tick assigns it again or starts a
\* track; it changes only by being promoted to current.
C12_OneFadeInFlight ==
    [][(last'.op = "tick" /\ fadein_song # None) =>
          /\ last'.branch # "fade_begin"
          /\ \/ fadein_song' = fadein_song
             \/ fadein_song' = None /\ current' = fadein_song
          /\ \A t \in SongIds : songs'[t].is_playing => songs[t].is_playing]_vars

C12_Witness ==
    /\ last.op = "tick" /\ last.branch = "fade_wait"
    /\ fadein_song # None /\ fadein_song # current
    /\ songs[fadein_song].is_playing /\ songs[current].is_playing

\* C13 (as claimed): whenever a current track exists, queue_position is an
\* index of the queue.
C13_PositionInRange ==
    current # None => queue_position >= 0 /\ queue_position < Len(queue)

\* C14 (as claimed): current and fadein_song are never the same track.
C14_CurrentNotFading ==
    current # None => fadein_song # current

\* what tick reads of the current track
CurrentBytes == remaining_bytes(songs[current])

CurrentSeconds == remaining_seconds(songs[current])

InFadeWindow == fade_in > 0 /\ CurrentSeconds <= fade_in

RepeatApplies == play_mode = "loop_single" /\ CurrentBytes <= 0

SongChangedNext == EmittedNext("song_changed")

\* C15: a tick outside loop_single and outside the fade rule, with no data
\* left in current and a next track in the queue, stops and releases the old
\* current, makes that next track current, moves queue_position by one and
\* starts the new current.
C15_EndOfTrackStep ==
    [][(/\ last'.op = "tick" /\ current # None
        /\ play_mode # "loop_single" /\ ~InFadeWindow
        /\ CurrentBytes <= 0 /\ NextChoices(State) # {None}) =>
          /\ freed' = <<current>>
          /\ current' \in NextChoices(State)
          /\ queue_position' = queue_position + 1
          /\ songs'[current'].is_playing
          /\ songs'[current'].position = 0
          /\ (current' # current => ~songs'[current].is_playing)]_vars

C15_Witness ==
    /\ last.op = "tick" /\ last.branch = "advance" /\ fade_in = 0
    /\ current = 2 /\ queue_position = 1 /\ play_mode = "sequential"
    /\ freed = <<1>> /\ songs[2].is_playing /\ ~songs[1].is_playing

\* the tick that begins a fade, as claimed and as amended
C16_BeginsFade ==
    /\ fadein_song' \in NextChoices(State)
    /\ songs'[fadein_song'].is_playing
    /\ current' = current /\ queue_position' = queue_position
    /\ SongChangedNext = <<>>

\* the tick that completes a fade
C16_CompletesFade ==
    /\ freed' = <<current>>
    /\ ~songs'[current].is_playing
    /\ current' = fadein_song
    /\ fadein_song' = None
    /\ queue_position' = queue_position + 1
    /\ SongChangedNext = <<Sig("song_changed", current')>>

\* C16 (as claimed): in the fade window with no fade in flight and a next
\* track, the tick begins the fade; with a fade in flight and no data left
\* in current, the tick completes it.
C16_FadeSteps ==
    [][(last'.op = "tick" /\ current # None) =>
          /\ (InFadeWindow /\ fadein_song = None /\ NextChoices(State) # {None}
                => C16_BeginsFade)
          /\ (fadein_song # None /\ CurrentBytes <= 0 => C16_CompletesFade)]_vars

\* C16 (amended): the same two steps, on ticks where the repeat rule does
\* not apply (the mode is not loop_single, or current has data left).
C16_FadeStepsUnlessRepeat ==
    [][(last'.op = "tick" /\ current # None /\ ~RepeatApplies) =>
          /\ (InFadeWindow /\ fadein_song = None /\ NextChoices(State) # {None}
                => C16_BeginsFade)
          /\ (fadein_song # None /\ CurrentBytes <= 0 => C16_CompletesFade)]_vars

C16_Witness ==
    /\ last.op = "tick" /\ last.branch = "fade_complete"
    /\ play_mode = "random" /\ fadein_song = None /\ current # None
    /\ emitted = <<Sig("song_changed", current), Sig("ticked", None)>>

\* C17: in loop_single a tick that finds no data left in current seeks it
\* to 0, keeps current and queue_position, stops and releases nothing, and
\* emits exactly one song_changed, for current.
C17_LoopSingleRepeats ==
    [][(last'.op = "tick" /\ current # None /\ RepeatApplies) =>
          /\ songs'[current].position = 0
          /\ current' = current /\ queue_position' = queue_position
          /\ freed' = <<>>
          /\ \A t \in SongIds : songs'[t].is_playing = songs[t].is_playing
          /\ SongChangedNext = <<Sig("song_changed", current)>>]_vars

C17_Witness ==
    /\ last.op = "tick" /\ last.branch = "repeat" /\ play_mode = "loop_single"
    /\ current # None /\ songs[current].position = 0 /\ songs[current].is_playing
    /\ emitted = <<Sig("song_changed", current), Sig("ticked", None)>>

\* C18: a tick that finds no current track changes nothing of the playback
\* state: current, fadein_song, queue_position, queue and play_mode stay, no
\* track is started, stopped, sought or released, and no song_changed is
\* emitted.
C18_IdleTickNoOp ==
    [][(last'.op = "tick" /\ current = None) =>
          /\ current' = None
          /\ fadein_song' = fadein_song
          /\ queue_position' = queue_position
          /\ queue' = queue
          /\ play_mode' = play_mode
          /\ songs' = songs
          /\ freed' = <<>>
          /\ SongChangedNext = <<>>]_vars

C18_Witness ==
    /\ last.op = "tick" /\ last.branch = "idle" /\ current = None
    /\ Len(queue) = 2 /\ queue_position = 1 /\ freed = <<>>
    /\ fadein_song = None /\ \A t \in SongIds : ~songs[t].is_playing

\* C19 (as claimed): whenever current exists and is playing, the ticker is
\* running.
C19_PlayingImpliesTicking ==
    current # None /\ songs[current].is_playing => ticker

\* C20 (as claimed): after every tick that ends with a current track, that
\* track is the entry of the queue at queue_position.
C20_TickLandsOnCurrent ==
    last.op = "tick" /\ current # None =>
        InRange(State, queue_position) /\ Entry(State, queue_position) = current

====
